---- MODULE Spec2Model ----
(***************************************************************************)
(* script/encrypt-heroku-auth-token.js: fetch the Heroku token, encrypt it *)
(* with the repository's Travis public key and write the result into       *)
(* .travis.yml.  Strings are sequences of one-character strings, buffers   *)
(* are sequences of characters (stdout) or of bytes (the ciphertext).      *)
(***************************************************************************)
EXTENDS Integers, Sequences, FiniteSets, TLC

(* ------------------------------ bounds -------------------------------- *)

\* Runs of the script, one after the other, on the same working directory.
MaxRuns == 2
\* "data" events one subprocess delivers before it closes.
MaxChunks == 2
\* Calls of clean() in the clean() harness.
MaxCleanCalls == 2

(* --------------------------- the environment --------------------------- *)

\* What the stdout of `heroku auth:token` is made of.
Chunks == {<<"t">>, <<"\n">>}
\* App names the heroku remote can resolve to.
Apps == {"app1", "app2"}
\* PEM texts the Travis API can answer with.
PemKeys == {"PEM1", "PEM2"}
\* Ciphertexts openssl can produce (RSA padding is random).
Ciphers == {<<77, 97, 110>>, <<255>>}
\* Exit codes of `close`; a process killed by a signal closes with null.
ExitCodes == {0, 1}
\* What node does with a rejection nobody handles: exit 1 (node >= 15) or
\* warn and end normally (older node).
DefaultRejectionExit == {0, 1}

(* ------------------------------ the files ------------------------------ *)

KeyFile == ".tmp.key.pem"
TokenFile == ".tmp.token.txt"
EncFile == ".tmp.token.enc"
TravisFile == ".travis.yml"
FileNames == {KeyFile, TokenFile, EncFile, TravisFile}

Absent == [absent |-> TRUE]
File(data) == [data |-> data]
\* fs.existsSync
existsSync(files, f) == "data" \in DOMAIN files[f]
\* fs.writeFileSync
writeFileSync(files, f, data) == [files EXCEPT ![f] = File(data)]
\* fs.unlinkSync: throws ENOENT on a path that does not exist
unlinkSync(files, f) ==
  IF existsSync(files, f)
    THEN [files |-> [files EXCEPT ![f] = Absent], threw |-> FALSE]
    ELSE [files |-> files, threw |-> TRUE]

externalFiles == <<KeyFile, TokenFile, EncFile>>

RECURSIVE cleanFrom(_, _)
cleanFrom(r, i) ==
  IF i > Len(externalFiles) \/ r.threw THEN r
  ELSE cleanFrom(IF existsSync(r.files, externalFiles[i])
                   THEN unlinkSync(r.files, externalFiles[i])
                   ELSE r,
                 i + 1)

RECURSIVE unlinkFrom(_, _)
unlinkFrom(r, i) ==
  IF i > Len(externalFiles) \/ r.threw THEN r
  ELSE unlinkFrom(unlinkSync(r.files, externalFiles[i]), i + 1)

\* clean() without the existsSync test.
cleanNoCheck(files) == unlinkFrom([files |-> files, threw |-> FALSE], 1)

\* clean(): the files afterwards, and whether an unlink threw.
clean(files) == cleanFrom([files |-> files, threw |-> FALSE], 1)

(* ------------------------- strings and buffers ------------------------- *)

RECURSIVE join(_, _)
\* Array.prototype.join: the elements' strings with sep between them.
join(arr, sep) ==
  IF Len(arr) = 0 THEN <<>>
  ELSE IF Len(arr) = 1 THEN arr[1]
  ELSE arr[1] \o sep \o join(Tail(arr), sep)

\* herokuTokenOut.toString("utf-8") on an Array of Buffers: Array's toString
\* takes no argument and is join(","), each Buffer decoded as UTF-8.
arrayToString(arr) == join(arr, <<",">>)

\* String.prototype.slice(0, end), end possibly negative.
slice0(str, end) ==
  LET e == IF end < 0 THEN (IF Len(str) + end < 0 THEN 0 ELSE Len(str) + end)
           ELSE (IF end > Len(str) THEN Len(str) ELSE end)
  IN SubSeq(str, 1, e)

\* main, lines 146-147
herokuTokenOf(herokuTokenOut) ==
  LET herokuTokenStr == arrayToString(herokuTokenOut)
  IN slice0(herokuTokenStr, Len(herokuTokenStr) - 1)

B64Alphabet ==
  << "A","B","C","D","E","F","G","H","I","J","K","L","M","N","O","P",
     "Q","R","S","T","U","V","W","X","Y","Z","a","b","c","d","e","f",
     "g","h","i","j","k","l","m","n","o","p","q","r","s","t","u","v",
     "w","x","y","z","0","1","2","3","4","5","6","7","8","9","+","/" >>
B64(n) == B64Alphabet[n + 1]

RECURSIVE toBase64(_)
\* Buffer.prototype.toString("base64")
toBase64(bytes) ==
  IF Len(bytes) = 0 THEN <<>>
  ELSE IF Len(bytes) = 1 THEN
    << B64(bytes[1] \div 4), B64((bytes[1] % 4) * 16), "=", "=" >>
  ELSE IF Len(bytes) = 2 THEN
    << B64(bytes[1] \div 4),
       B64((bytes[1] % 4) * 16 + bytes[2] \div 16),
       B64((bytes[2] % 16) * 4), "=" >>
  ELSE
    << B64(bytes[1] \div 4),
       B64((bytes[1] % 4) * 16 + bytes[2] \div 16),
       B64((bytes[2] % 16) * 4 + bytes[3] \div 64),
       B64(bytes[3] % 64) >> \o toBase64(SubSeq(bytes, 4, Len(bytes)))

(* ------------------------------ the YAML ------------------------------- *)

\* The text of a YAML file: its top-level pairs in order, each with the
\* comment attached to it and the comments before the pairs of its value,
\* the document's trailing comment, and whether the text is laid out the way
\* the serializer lays it out.
YamlText(items, comment, canonical) ==
  [items |-> items, comment |-> comment, canonical |-> canonical]
Pair(key, value) == [key |-> key, value |-> value, comment |-> <<>>, inner |-> <<>>]
Scalar(s) == [scalar |-> s]
YamlSeq(q) == [seq |-> q]
YamlMap(m) == [map |-> m]

\* YAML.parseDocument: the pairs and comments, without the layout.
parseDocument(text) == [items |-> text.items, comment |-> text.comment]
\* Document.prototype.toString: always the serializer's layout.
docToString(doc) == YamlText(doc.items, doc.comment, TRUE)

\* Document.prototype.has
docHas(doc, key) == \E i \in 1..Len(doc.items) : doc.items[i].key = key
\* A set that leaves a key that is already there alone.
docSetIfNew(doc, key, value) ==
  IF docHas(doc, key) THEN doc
  ELSE [doc EXCEPT !.items = Append(@, Pair(key, value))]

\* Document.prototype.set: replaces the value of a key that is there (the
\* pair keeps its place and comment), adds a pair at the end otherwise.
docSet(doc, key, value) ==
  IF docHas(doc, key)
    THEN [items |-> [i \in 1..Len(doc.items) |->
                       IF doc.items[i].key = key
                         THEN [doc.items[i] EXCEPT !.value = value]
                         ELSE doc.items[i]],
          comment |-> doc.comment]
    ELSE [doc EXCEPT !.items = Append(@, Pair(key, value))]

\* keyComments.json: a comment for each key it names.
keyComments ==
  [k \in {"before_deploy", "deploy", "skip_cleanup", "provider", "app", "api_key"}
     |-> <<"#", k>>]

\* The keys of the deploy map, in the order createNode gives them.
deployKeys == <<"skip_cleanup", "provider", "app", "api_key">>

deployNode(app, key) ==
  YamlMap([skip_cleanup |-> TRUE, provider |-> "heroku", app |-> app,
           api_key |-> [secure |-> key]])

\* updateTravisYAML, lines 128-133: the comments one pair gets.
commented(item) ==
  [key |-> item.key, value |-> item.value,
   comment |-> keyComments[item.key],
   inner |-> IF item.key = "deploy"
               THEN [j \in 1..Len(deployKeys) |->
                       IF deployKeys[j] \in DOMAIN keyComments
                         THEN keyComments[deployKeys[j]]
                         ELSE <<>>]
               ELSE item.inner]

\* updateTravisYAML, lines 125-134
attachComments(doc) ==
  [items |-> [i \in 1..Len(doc.items) |->
                IF doc.items[i].key \in DOMAIN keyComments
                  THEN commented(doc.items[i])
                  ELSE doc.items[i]],
   comment |-> doc.comment]

\* updateTravisYAML without the before_deploy guard.
updateTravisYAMLNoGuard(files, app, key) ==
  IF ~existsSync(files, TravisFile)
    THEN [files |-> files, result |-> "threw", printed |-> <<>>, wrote |-> FALSE]
  ELSE
    LET doc == parseDocument(files[TravisFile].data)
        doc1 == docSet(doc, "before_deploy", YamlSeq(<<"rm -rf node_modules">>))
        doc2 == docSet(doc1, "deploy", deployNode(app, key))
        doc3 == [attachComments(doc2) EXCEPT !.comment = <<>>]
    IN [files |-> writeFileSync(files, TravisFile, docToString(doc3)),
        result |-> "true", printed |-> <<>>, wrote |-> TRUE]

\* updateTravisYAML that forgets to set before_deploy.
updateTravisYAMLNoMarker(files, app, key) ==
  IF ~existsSync(files, TravisFile)
    THEN [files |-> files, result |-> "threw", printed |-> <<>>, wrote |-> FALSE]
  ELSE
    LET doc == parseDocument(files[TravisFile].data)
    IN IF docHas(doc, "before_deploy")
         THEN [files |-> files, result |-> "undefined",
               printed |-> <<"idempotenceMessage">>, wrote |-> FALSE]
       ELSE
         LET doc2 == docSet(doc, "deploy", deployNode(app, key))
             doc3 == [attachComments(doc2) EXCEPT !.comment = <<>>]
         IN [files |-> writeFileSync(files, TravisFile, docToString(doc3)),
             result |-> "true", printed |-> <<>>, wrote |-> TRUE]

\* updateTravisYAML(app, key): the files afterwards, what it returned
\* ("true", "undefined" for console.log's result, "threw" when readFileSync
\* found no .travis.yml), what it printed, whether it wrote .travis.yml.
updateTravisYAML(files, app, key) ==
  IF ~existsSync(files, TravisFile)
    THEN [files |-> files, result |-> "threw", printed |-> <<>>, wrote |-> FALSE]
  ELSE
    LET doc == parseDocument(files[TravisFile].data)
    IN IF docHas(doc, "before_deploy")
         THEN [files |-> files, result |-> "undefined",
               printed |-> <<"idempotenceMessage">>, wrote |-> FALSE]
       ELSE
         LET doc1 == docSet(doc, "before_deploy", YamlSeq(<<"rm -rf node_modules">>))
             doc2 == docSet(doc1, "deploy", deployNode(app, key))
             doc3 == [attachComments(doc2) EXCEPT !.comment = <<>>]
         IN [files |-> writeFileSync(files, TravisFile, docToString(doc3)),
             result |-> "true", printed |-> <<>>, wrote |-> TRUE]

(* ----------------------------- the process ----------------------------- *)

VARIABLES
  pc,           \* where main is: the operation it awaits, or "exited"
  verbose,      \* process.argv.hasOwnProperty(2)
  files,        \* the working directory
  appName,      \* main's appName
  stdout,       \* the chunks the stdout listener of `heroku auth:token` pushed
  herokuToken,  \* main's herokuToken
  keyBase64,    \* main's keyBase64
  update,       \* main's update: "unset", "true" or "undefined"
  exitCode,     \* the code the process ended with, once pc = "exited"
  handlers,     \* the uncaughtException/unhandledRejection listeners are on
  handled,      \* one of these listeners ran
  failed,       \* the step of this run that failed, or "none"
  console,      \* what this run printed
  log,          \* the steps this run began, in order
  inflight,     \* the external operations in flight
  run,          \* the number of this run
  travisBefore, \* .travis.yml when this run began
  travisWritten,\* what the runs so far wrote to .travis.yml, in order
  twin,         \* two runs on the same inputs, one quiet and one verbose
  harness       \* the clean() harness: calls made, whether one threw, files before

vars == << pc, verbose, files, appName, stdout, herokuToken, keyBase64, update,
           exitCode, handlers, handled, failed, console, log, inflight, run,
           travisBefore, travisWritten, twin, harness >>

State ==
  [pc |-> pc, verbose |-> verbose, files |-> files, appName |-> appName,
   stdout |-> stdout, herokuToken |-> herokuToken, keyBase64 |-> keyBase64,
   update |-> update, exitCode |-> exitCode, handlers |-> handlers,
   handled |-> handled, failed |-> failed, console |-> console, log |-> log,
   inflight |-> inflight, run |-> run, travisBefore |-> travisBefore,
   travisWritten |-> travisWritten]

Is(w) ==
  /\ pc = w.pc /\ verbose = w.verbose /\ files = w.files
  /\ appName = w.appName /\ stdout = w.stdout
  /\ herokuToken = w.herokuToken /\ keyBase64 = w.keyBase64
  /\ update = w.update /\ exitCode = w.exitCode
  /\ handlers = w.handlers /\ handled = w.handled /\ failed = w.failed
  /\ console = w.console /\ log = w.log /\ inflight = w.inflight
  /\ run = w.run /\ travisBefore = w.travisBefore
  /\ travisWritten = w.travisWritten

Becomes(w) ==
  /\ pc' = w.pc /\ verbose' = w.verbose /\ files' = w.files
  /\ appName' = w.appName /\ stdout' = w.stdout
  /\ herokuToken' = w.herokuToken /\ keyBase64' = w.keyBase64
  /\ update' = w.update /\ exitCode' = w.exitCode
  /\ handlers' = w.handlers /\ handled' = w.handled /\ failed' = w.failed
  /\ console' = w.console /\ log' = w.log /\ inflight' = w.inflight
  /\ run' = w.run /\ travisBefore' = w.travisBefore
  /\ travisWritten' = w.travisWritten

\* console.log under `if (verbose)`
verboseLog(w, msg) == IF w.verbose THEN Append(w.console, msg) ELSE w.console

\* The process ends with this code; the children it awaited are gone with it.
exit(w, code) == [w EXCEPT !.pc = "exited", !.exitCode = code, !.inflight = {}]

\* The listener of lines 176-180 and of lines 182-186.
cleanupHandler(w) ==
  exit([w EXCEPT !.files = clean(w.files).files,
                 !.handled = TRUE,
                 !.console = verboseLog(w, "Cleaned up on error!")], 1)

\* An error thrown out of an event listener: the uncaughtException listener
\* when there is one, node's default (print, exit 1) when there is none.
uncaughtException(w) ==
  IF w.handlers THEN cleanupHandler(w) ELSE exit(w, 1)

\* main's promise rejected with nobody awaiting it: the unhandledRejection
\* listener when there is one, node's default (dflt) when there is none.
unhandledRejection(w, dflt) ==
  IF w.handlers THEN cleanupHandler(w) ELSE exit(w, dflt)

\* A close listener that takes every exit code for success.
closeNeverThrows(code) == FALSE

\* getOutputFromCommand, line 71: `if (code) throw new Error(reject(stderr))`
closeThrows(code) == code # 0

\* node starts the script: main runs up to its first await (lines 141-142).
launch(fs, argv2, n, written) ==
  [pc |-> "git", verbose |-> argv2, files |-> fs, appName |-> "undefined",
   stdout |-> <<>>, herokuToken |-> <<>>, keyBase64 |-> <<>>,
   update |-> "unset", exitCode |-> 0, handlers |-> FALSE, handled |-> FALSE,
   failed |-> "none", console |-> <<>>, log |-> <<"git">>,
   inflight |-> {"git"}, run |-> n, travisBefore |-> fs[TravisFile],
   travisWritten |-> written]

\* getNamesFromGit's callback (lines 81-89), then main up to its second
\* await (lines 142-145).
onRemotes(w, err, app) ==
  IF err THEN uncaughtException(w)
  ELSE [w EXCEPT !.appName = app, !.pc = "heroku", !.stdout = <<>>,
                 !.log = Append(@, "heroku"), !.inflight = {"heroku"}]

\* The stdout listener, lines 62-64.
onData(w, data) == [w EXCEPT !.stdout = Append(@, data)]

\* The close listener of `heroku auth:token` (lines 70-73), then main up to
\* its third await (lines 145-152).
onHerokuClose(w, code) ==
  IF closeThrows(code) THEN uncaughtException(w)
  ELSE LET w1 == [w EXCEPT !.herokuToken = herokuTokenOf(w.stdout)]
       IN [w1 EXCEPT !.console = verboseLog(w1, "Received Heroku token"),
                     !.pc = "http", !.log = Append(@, "http"),
                     !.inflight = {"http"}]

\* axios.get settles, then main up to its fourth await (lines 152-162).
onAxiosGet(w, ok, key, dflt) ==
  IF ~ok THEN unhandledRejection(w, dflt)
  ELSE [w EXCEPT
          !.console = verboseLog(w, "Received Travis pubkey"),
          !.files = writeFileSync(writeFileSync(w.files, KeyFile, key),
                                  TokenFile, w.herokuToken),
          !.pc = "openssl", !.log = Append(@, "openssl"),
          !.inflight = {"openssl"}]

\* Lines 165-186 with the document update before the cleanup.
mainTailUpdateFirst(w, dflt) ==
  IF ~existsSync(w.files, EncFile)
    THEN unhandledRejection([w EXCEPT !.failed = "read"], dflt)
  ELSE
    LET k == toBase64(w.files[EncFile].data)
        w1 == [w EXCEPT !.keyBase64 = k,
                        !.console = verboseLog(w, "Encrypted key base 64 encoded")]
        u == updateTravisYAML(w1.files, w1.appName, k)
        w2 == [w1 EXCEPT !.files = u.files, !.log = Append(@, "update"),
                         !.console = @ \o u.printed,
                         !.travisWritten =
                            IF u.wrote THEN Append(@, u.files[TravisFile].data) ELSE @]
        c == clean(w2.files)
        w3 == [w2 EXCEPT !.files = c.files, !.log = Append(@, "clean")]
    IN IF u.result = "threw"
         THEN unhandledRejection([w2 EXCEPT !.failed = "update"], dflt)
       ELSE exit([w3 EXCEPT !.update = u.result,
                            !.console = IF u.result = "true"
                                          THEN Append(@, "successMessage") ELSE @,
                            !.handlers = TRUE], 0)

\* Lines 165-186 with the cleanup under `if (verbose)`.
mainTailVerboseClean(w, dflt) ==
  IF ~existsSync(w.files, EncFile)
    THEN unhandledRejection([w EXCEPT !.failed = "read"], dflt)
  ELSE
    LET k == toBase64(w.files[EncFile].data)
        c == IF w.verbose THEN clean(w.files) ELSE [files |-> w.files, threw |-> FALSE]
        w1 == [w EXCEPT !.keyBase64 = k,
                        !.console = verboseLog(w, "Encrypted key base 64 encoded"),
                        !.files = c.files, !.log = Append(@, "clean")]
        u == updateTravisYAML(w1.files, w1.appName, k)
        w2 == [w1 EXCEPT !.files = u.files, !.log = Append(@, "update"),
                         !.console = @ \o u.printed,
                         !.travisWritten =
                            IF u.wrote THEN Append(@, u.files[TravisFile].data) ELSE @]
    IN IF u.result = "threw"
         THEN unhandledRejection([w2 EXCEPT !.failed = "update"], dflt)
       ELSE exit([w2 EXCEPT !.update = u.result,
                            !.console = IF u.result = "true"
                                          THEN Append(@, "successMessage") ELSE @,
                            !.handlers = TRUE], 0)

\* main after its last await, lines 165-186: the base64 of the ciphertext,
\* clean(), updateTravisYAML, the two listeners; then the process has nothing
\* left to wait for and ends with code 0.  A throw on the way rejects main's
\* promise before the listeners are on.
mainTail(w, dflt) ==
  IF ~existsSync(w.files, EncFile)
    THEN unhandledRejection([w EXCEPT !.failed = "read"], dflt)
  ELSE
    LET k == toBase64(w.files[EncFile].data)
        c == clean(w.files)
        w1 == [w EXCEPT !.keyBase64 = k,
                        !.console = verboseLog(w, "Encrypted key base 64 encoded"),
                        !.files = c.files, !.log = Append(@, "clean")]
        u == updateTravisYAML(w1.files, w1.appName, k)
        w2 == [w1 EXCEPT !.files = u.files, !.log = Append(@, "update"),
                         !.console = @ \o u.printed,
                         !.travisWritten =
                            IF u.wrote THEN Append(@, u.files[TravisFile].data) ELSE @]
    IN IF c.threw
         THEN unhandledRejection([w1 EXCEPT !.failed = "clean"], dflt)
       ELSE IF u.result = "threw"
         THEN unhandledRejection([w2 EXCEPT !.failed = "update"], dflt)
       ELSE exit([w2 EXCEPT !.update = u.result,
                            !.console = IF u.result = "true"
                                          THEN Append(@, "successMessage") ELSE @,
                            !.handlers = TRUE], 0)

\* The close listener of openssl (lines 70-73), then the rest of main.
onOpensslClose(w, code, dflt) ==
  IF closeThrows(code) THEN uncaughtException(w) ELSE mainTail(w, dflt)

\* What the environment did to a step, for the record.
observed(w, step, bad) == IF bad THEN [w EXCEPT !.failed = step] ELSE w

\* openssl rsautl ... -out .tmp.token.enc: the ciphertext file of a run that
\* exits with 0.
opensslRan(w, code, cipher) ==
  IF code = 0 THEN [w EXCEPT !.files = writeFileSync(w.files, EncFile, cipher)]
  ELSE w

(* ------------------------- the working directory ----------------------- *)

TravisItems ==
  LET language == <<Pair("language", Scalar("node_js"))>>
      deploy == <<Pair("deploy", YamlMap([provider |-> "pages"]))>>
      before == <<Pair("before_deploy", YamlSeq(<<"npm run build">>))>>
  IN {language, language \o deploy, language \o before,
      language \o before \o deploy}

\* The .travis.yml texts a run can find: written by hand (its own layout, a
\* trailing comment) or as the serializer lays them out.
TravisTexts ==
  {YamlText(items, <<>>, TRUE) : items \in TravisItems}
    \cup {YamlText(items, <<"#", "by hand">>, FALSE) : items \in TravisItems}

TravisStates == {File(t) : t \in TravisTexts} \cup {Absent}

\* A checkout with no temp file in it.
FreshFiles ==
  {[f \in FileNames |-> IF f = TravisFile THEN t ELSE Absent] : t \in TravisStates}

\* Any leftovers of earlier runs.
AnyFiles ==
  {[f \in FileNames |->
      CASE f = TravisFile -> t
        [] f = KeyFile -> k
        [] f = TokenFile -> tok
        [] OTHER -> enc] :
     t \in TravisStates,
     k \in {Absent, File("PEM1")},
     tok \in {Absent, File(<<>>), File(<<"t">>)},
     enc \in {Absent, File(<<255>>)}}

TempFiles == {KeyFile, TokenFile, EncFile}
Leftovers(fs) == {f \in TempFiles : existsSync(fs, f)}

(* ------------------------------- one run ------------------------------- *)

NoTwin == <<>>
NoHarness == [calls |-> 0, threw |-> FALSE, before |-> <<>>]

Init ==
  /\ \E fs \in FreshFiles, argv2 \in BOOLEAN : Is(launch(fs, argv2, 1, <<>>))
  /\ twin = NoTwin
  /\ harness = NoHarness

\* getNamesFromGit's callback runs.
Remotes ==
  /\ pc = "git"
  /\ \E err \in BOOLEAN, app \in Apps :
       Becomes(onRemotes(observed(State, "git", err), err, app))
  /\ UNCHANGED <<twin, harness>>

\* `heroku auth:token` writes to its stdout.
Data ==
  /\ pc = "heroku"
  /\ Len(stdout) < MaxChunks
  /\ \E data \in Chunks : Becomes(onData(State, data))
  /\ UNCHANGED <<twin, harness>>

\* `heroku auth:token` closes.
HerokuClose ==
  /\ pc = "heroku"
  /\ \E code \in ExitCodes :
       Becomes(onHerokuClose(observed(State, "heroku", code # 0), code))
  /\ UNCHANGED <<twin, harness>>

\* The GET of the public key settles.
AxiosGet ==
  /\ pc = "http"
  /\ \E ok \in BOOLEAN, key \in PemKeys, dflt \in DefaultRejectionExit :
       Becomes(onAxiosGet(observed(State, "http", ~ok), ok, key, dflt))
  /\ UNCHANGED <<twin, harness>>

\* openssl closes, having written the ciphertext when it closes with 0.
OpensslClose ==
  /\ pc = "openssl"
  /\ \E code \in ExitCodes, cipher \in Ciphers, dflt \in DefaultRejectionExit :
       Becomes(onOpensslClose(
                 opensslRan(observed(State, "openssl", code # 0), code, cipher),
                 code, dflt))
  /\ UNCHANGED <<twin, harness>>

\* The script is started again in the directory the last run left.
Rerun ==
  /\ pc = "exited"
  /\ run < MaxRuns
  /\ \E argv2 \in BOOLEAN : Becomes(launch(files, argv2, run + 1, travisWritten))
  /\ UNCHANGED <<twin, harness>>

Next == Remotes \/ Data \/ HerokuClose \/ AxiosGet \/ OpensslClose \/ Rerun

Spec == Init /\ [][Next]_vars

(* ---------------- two runs on the same inputs, lines 141-186 ----------- *)

\* No run of the single-run specification.
Off == [launch([f \in FileNames |-> Absent], FALSE, 0, <<>>)
          EXCEPT !.pc = "off", !.log = <<>>, !.inflight = {}]

InitPair ==
  /\ Is(Off)
  /\ harness = NoHarness
  /\ \E fs \in AnyFiles : twin = [v \in BOOLEAN |-> launch(fs, v, 1, <<>>)]

mainVars == << pc, verbose, files, appName, stdout, herokuToken, keyBase64,
               update, exitCode, handlers, handled, failed, console, log,
               inflight, run, travisBefore, travisWritten >>

Both(at) == \A v \in BOOLEAN : twin[v].pc = at

PairRemotes ==
  /\ Both("git")
  /\ \E err \in BOOLEAN, app \in Apps :
       twin' = [v \in BOOLEAN |->
                  onRemotes(observed(twin[v], "git", err), err, app)]
  /\ UNCHANGED <<mainVars, harness>>

PairData ==
  /\ Both("heroku")
  /\ \A v \in BOOLEAN : Len(twin[v].stdout) < MaxChunks
  /\ \E data \in Chunks : twin' = [v \in BOOLEAN |-> onData(twin[v], data)]
  /\ UNCHANGED <<mainVars, harness>>

PairHerokuClose ==
  /\ Both("heroku")
  /\ \E code \in ExitCodes :
       twin' = [v \in BOOLEAN |->
                  onHerokuClose(observed(twin[v], "heroku", code # 0), code)]
  /\ UNCHANGED <<mainVars, harness>>

PairAxiosGet ==
  /\ Both("http")
  /\ \E ok \in BOOLEAN, key \in PemKeys, dflt \in DefaultRejectionExit :
       twin' = [v \in BOOLEAN |->
                  onAxiosGet(observed(twin[v], "http", ~ok), ok, key, dflt)]
  /\ UNCHANGED <<mainVars, harness>>

PairOpensslClose ==
  /\ Both("openssl")
  /\ \E code \in ExitCodes, cipher \in Ciphers, dflt \in DefaultRejectionExit :
       twin' = [v \in BOOLEAN |->
                  onOpensslClose(
                    opensslRan(observed(twin[v], "openssl", code # 0), code, cipher),
                    code, dflt)]
  /\ UNCHANGED <<mainVars, harness>>

NextPair ==
  PairRemotes \/ PairData \/ PairHerokuClose \/ PairAxiosGet \/ PairOpensslClose

SpecPair == InitPair /\ [][NextPair]_vars

(* ------------------------ clean() called on its own -------------------- *)

InitClean ==
  /\ \E fs \in AnyFiles :
       /\ Is([Off EXCEPT !.pc = "harness", !.files = fs])
       /\ harness = [calls |-> 0, threw |-> FALSE, before |-> fs]
  /\ twin = NoTwin

\* clean() from the normal path, line 169.
CallClean ==
  /\ pc = "harness"
  /\ harness.calls < MaxCleanCalls
  /\ files' = clean(files).files
  /\ harness' = [harness EXCEPT !.calls = @ + 1,
                                !.threw = @ \/ clean(files).threw]
  /\ UNCHANGED << pc, verbose, appName, stdout, herokuToken, keyBase64, update,
                  exitCode, handlers, handled, failed, console, log, inflight,
                  run, travisBefore, travisWritten, twin >>

\* clean() from an error listener, lines 177 and 183; the process then ends.
CallCleanupHandler ==
  /\ pc = "harness"
  /\ harness.calls < MaxCleanCalls
  /\ \E argv2 \in BOOLEAN : Becomes(cleanupHandler([State EXCEPT !.verbose = argv2]))
  /\ harness' = [harness EXCEPT !.calls = @ + 1,
                                !.threw = @ \/ clean(files).threw]
  /\ UNCHANGED twin

NextClean == CallClean \/ CallCleanupHandler

SpecClean == InitClean /\ [][NextClean]_vars

(* ------------------------------ properties ----------------------------- *)

Range(q) == {q[i] : i \in 1..Len(q)}
IsPrefix(p, q) == Len(p) <= Len(q) /\ SubSeq(q, 1, Len(p)) = p
HadBeforeDeploy ==
  /\ "data" \in DOMAIN travisBefore
  /\ docHas(parseDocument(travisBefore.data), "before_deploy")
LackedBeforeDeploy ==
  /\ "data" \in DOMAIN travisBefore
  /\ ~docHas(parseDocument(travisBefore.data), "before_deploy")
\* The value a document maps a key to.
docGet(doc, key) ==
  LET i == CHOOSE j \in 1..Len(doc.items) : doc.items[j].key = key
  IN doc.items[i].value
KeysNamed(doc, key) == {i \in 1..Len(doc.items) : doc.items[i].key = key}

\* C1: when the process has exited, on whatever path, none of .tmp.key.pem,
\* .tmp.token.txt and .tmp.token.enc exists.
C1_NoTempFileAtExit == pc = "exited" => Leftovers(files) = {}

\* C2: the exit code is 0 when no step failed, and when a step failed it is 1
\* and the uncaughtException/unhandledRejection listener ran (clean(), then
\* exit(1)).
C2_ExitCodeAndHandler ==
  pc = "exited" =>
    IF failed = "none" THEN exitCode = 0 ELSE exitCode = 1 /\ handled

\* C3: when updateTravisYAML runs on a .travis.yml that has a top-level
\* before_deploy key, the file keeps its bytes, the result is not true, the
\* informational message is printed and the run ends without an error.
C3_NoOpLeavesFileAlone ==
  (pc = "exited" /\ "update" \in Range(log) /\ HadBeforeDeploy) =>
    /\ files[TravisFile] = travisBefore
    /\ update = "undefined"
    /\ "idempotenceMessage" \in Range(console)
    /\ "successMessage" \notin Range(console)
    /\ failed = "none" /\ exitCode = 0

\* A no-op run on a hand-written file, which a rewrite would have changed.
C3_Witness ==
  /\ pc = "exited" /\ "update" \in Range(log) /\ HadBeforeDeploy
  /\ ~travisBefore.data.canonical
  /\ update = "undefined"

\* C4: when updateTravisYAML(app, key) runs on a .travis.yml without a
\* top-level before_deploy key (with or without a deploy key), it returns
\* true and the file written maps before_deploy to ["rm -rf node_modules"]
\* and deploy to {skip_cleanup: true, provider: "heroku", app: app,
\* api_key: {secure: key}}, app the resolved app name and key the base64 of
\* this run's ciphertext.
C4_UpdateWritesDeployConfig ==
  (pc = "exited" /\ "update" \in Range(log) /\ LackedBeforeDeploy) =>
    /\ update = "true"
    /\ "data" \in DOMAIN files[TravisFile]
    /\ LET doc == parseDocument(files[TravisFile].data)
       IN /\ Cardinality(KeysNamed(doc, "before_deploy")) = 1
          /\ Cardinality(KeysNamed(doc, "deploy")) = 1
          /\ docGet(doc, "before_deploy") = [seq |-> <<"rm -rf node_modules">>]
          /\ docGet(doc, "deploy") =
               [map |-> [skip_cleanup |-> TRUE, provider |-> "heroku",
                         app |-> appName, api_key |-> [secure |-> keyBase64]]]
    /\ appName \in Apps
    /\ keyBase64 \in {<<"T", "W", "F", "u">>, <<"/", "w", "=", "=">>}

\* An update applied to a file that already had a deploy key.
C4_Witness ==
  /\ pc = "exited" /\ update = "true" /\ LackedBeforeDeploy
  /\ docHas(parseDocument(travisBefore.data), "deploy")
  /\ keyBase64 = <<"T", "W", "F", "u">>

StepsThrough(step) ==
  CASE step = "heroku" -> <<"git", "heroku">>
    [] step = "http" -> <<"git", "heroku", "http">>
    [] step = "openssl" -> <<"git", "heroku", "http", "openssl">>

\* C5: once the credential CLI has exited non-zero, the key fetch has failed
\* or the encryption CLI has exited non-zero, the run is over: no step after
\* the failing one has begun, no step was begun twice, and .travis.yml is as
\* it was when the run began.
C5_FailureIsFatal ==
  /\ \A i, j \in 1..Len(log) : log[i] = log[j] => i = j
  /\ failed \in {"heroku", "http", "openssl"} =>
       /\ pc = "exited"
       /\ log = StepsThrough(failed)
       /\ inflight = {}
       /\ update = "unset"
       /\ files[TravisFile] = travisBefore

\* The encryption CLI failed on a run that could have updated the file.
C5_Witness ==
  /\ failed = "openssl" /\ pc = "exited" /\ LackedBeforeDeploy

\* C6 as claimed: the steps are begun in the order git, heroku, http,
\* openssl, update, clean, one external operation at a time, the cleanup last.
C6_CleanupAfterUpdate ==
  /\ IsPrefix(log, <<"git", "heroku", "http", "openssl", "update", "clean">>)
  /\ Cardinality(inflight) <= 1

\* C6: the steps are begun in the order git, heroku, http, openssl, clean,
\* update; a step begins only when the one before it is over, at most one
\* external operation is in flight, and a run in which nothing fails goes
\* through all six, the cleanup before the document update.
C6_StepsInOrder ==
  /\ IsPrefix(log, <<"git", "heroku", "http", "openssl", "clean", "update">>)
  /\ Cardinality(inflight) <= 1
  /\ inflight # {} => inflight = {log[Len(log)]}
  /\ (pc = "exited" /\ failed = "none") =>
       log = <<"git", "heroku", "http", "openssl", "clean", "update">>

\* A run that went through all its steps.
C6_Witness ==
  /\ pc = "exited" /\ failed = "none" /\ update = "true" /\ Len(log) = 6

\* C7: two runs from the same files that get the same answers from git, the
\* credential CLI, the HTTP call and openssl, one with a third argument and
\* one without, are at the same place with the same files at every moment,
\* and so when they have ended.
C7_VerboseLeavesFilesAlone ==
  /\ twin[TRUE].pc = twin[FALSE].pc
  /\ twin[TRUE].files = twin[FALSE].files
  /\ twin[TRUE].exitCode = twin[FALSE].exitCode

\* Both runs applied the update and printed different things.
C7_Witness ==
  /\ Both("exited")
  /\ twin[TRUE].update = "true" /\ twin[FALSE].update = "true"
  /\ twin[TRUE].console # twin[FALSE].console
  /\ "data" \in DOMAIN twin[TRUE].files[TravisFile]

\* The chunks one after the other.
Captured(chunks) == join(chunks, <<>>)
\* A string without its trailing newline, if it has one.
WithoutTrailingNewline(str) ==
  IF Len(str) > 0 /\ str[Len(str)] = "\n" THEN SubSeq(str, 1, Len(str) - 1)
  ELSE str

\* C8: the token in .tmp.token.txt is the captured stdout of the credential
\* CLI without its trailing newline, nothing else removed, nothing put
\* between the chunks.
C8_TokenIsStdoutWithoutNewline ==
  pc = "openssl" =>
    files[TokenFile] = File(WithoutTrailingNewline(Captured(stdout)))

\* C9: after clean(), called once or more, from the normal path or from an
\* error listener, whatever temp files there were: none of the three is left,
\* no call threw, .travis.yml is as it was, and one more call changes nothing
\* and does not throw.
C9_CleanIsIdempotentAndTotal ==
  harness.calls >= 1 =>
    /\ Leftovers(files) = {}
    /\ ~harness.threw
    /\ files[TravisFile] = harness.before[TravisFile]
    /\ clean(files) = [files |-> files, threw |-> FALSE]

\* clean() called twice on a directory where only some temp files existed.
C9_Witness ==
  /\ harness.calls = 2
  /\ Leftovers(harness.before) = {TokenFile}
  /\ "data" \in DOMAIN files[TravisFile]

\* C10: over the runs so far .travis.yml was written at most once; once
\* written it has a top-level before_deploy key and still holds what that
\* one write put there, and a run that took the no-op branch left it alone.
C10_AppliedAtMostOnce ==
  /\ Len(travisWritten) <= 1
  /\ Len(travisWritten) = 1 =>
       /\ files[TravisFile] = File(travisWritten[1])
       /\ docHas(parseDocument(travisWritten[1]), "before_deploy")
  /\ update = "undefined" => files[TravisFile] = travisBefore

\* A later run, with another app name, found the first run's update.
C10_Witness ==
  /\ run > 1 /\ pc = "exited" /\ update = "undefined"
  /\ Len(travisWritten) = 1
  /\ docGet(parseDocument(files[TravisFile].data), "deploy").map.app # appName

====
